---- MODULE Spec2Model ----
(***************************************************************************)
(* Certivo: the challenge-session engine.                                  *)
(*                                                                         *)
(* Two FastAPI applications live in the repository:                        *)
(*   - src/backend/main.py ("Backend Authority v1"): server-side sessions  *)
(*     with ordered challenge slots, retries, expiry and finalize.         *)
(*     Specification Spec.                                                 *)
(*   - src/main.py: single-use challenges kept in a table, a client-fed    *)
(*     finalize that scores a list of results, and trusted-device tokens.  *)
(*     Specification SpecLegacy is its finalize alone; SpecLegacyApp adds *)
(*     the challenge issuing.  Its handlers are plain "def": they run on   *)
(*     worker threads and interleave between their statements.            *)
(*     SpecLegacyVerify is the issuing and the redeeming of challenges,    *)
(*     SpecTrustedCheck the granting and the checking of device tokens.    *)
(*   - src/challenge_engine.py: the challenge generator with its per-device *)
(*     token sessions.  Specification SpecEngine.                          *)
(*                                                                         *)
(* Scheduling.  verify_challenge is an "async def" with no await in its    *)
(* body: it runs on the event loop, one request at a time, so two verify   *)
(* requests never interleave with each other.  The other backend handlers  *)
(* are plain "def": FastAPI runs them on worker threads, so they do run    *)
(* while verify_challenge is blocked in the analyzer call (line 128).      *)
(* verify_challenge is therefore two steps: the checks (lines 107-122)     *)
(* and the analyzer call with the update (lines 124-145).  The short       *)
(* handlers (start, challenge fetch, finalize) are one step each.          *)
(*                                                                         *)
(* Time is counted in minutes.  Sequences are 1-based here and 0-based in  *)
(* the source: slot number i of the source is challenges[i + 1].           *)
(***************************************************************************)
EXTENDS Integers, Sequences, FiniteSets, Bags, TLC

\* ------------------------------------------------------------------ bounds

\* Session identifiers the model can hand out (uuid4 in the source).
MaxSessions == 1

\* The clock runs from 0 to MaxTime minutes.
MaxTime == 6

\* Verify requests that can be in flight (sent, not yet answered) at once.
MaxInflight == 2

\* Distinct video contents a client can upload.
MaxMedia == 1

\* Results in the payload of one finalize_session request (src/main.py).
MaxResults == 3

\* Session records finalize_session can append to in_memory_sessions.
MaxRecords == 1

\* The clock of src/main.py runs from 0 to MaxClock days, ClockStep days at a time.
MaxClock == 45

ClockStep == 15

\* Calls of get_challenge (src/main.py) that can add rows to the challenges table.
MaxIssues == 1

\* Worker threads that run handlers of src/main.py at the same time.
MaxWorkers == 2

\* Previous results handed to one generate_adaptive_challenges call.
MaxPrev == 1

\* Calls of generate_adaptive_challenges (src/challenge_engine.py).
MaxGenerations == 2

\* The clock of src/challenge_engine.py runs from 0 to MaxEngineTime minutes,
\* EngineStep minutes at a time.
MaxEngineTime == 15

EngineStep == 5

\* ------------------------------------------------------- program constants

\* TRUST_DURATION_SECONDS = 60 * 60 * 24 * 30, in days
TRUST_DURATION_DAYS == 30

\* SESSION_LIFETIME = timedelta(minutes=5)
SESSION_LIFETIME == 5

\* MAX_RETRIES_PER_CHALLENGE = 2
MAX_RETRIES_PER_CHALLENGE == 2

\* generate_adaptive_challenges(num=3, ...)
NUM_CHALLENGES == 3

\* if trust_score >= 85 (finalize), "high"
HIGH_TRUST == 85

\* "medium" if trust_score >= 60
MEDIUM_TRUST == 60

\* max(30, ...): the floor of the trust score
SCORE_FLOOR == 30

\* min(100, ...): the ceiling of the trust score
SCORE_CEIL == 100

\* ----------------------------------------------------------------- values

Devices == {"devA"}

SessionIds == 1..MaxSessions

\* A session_id no session was ever created under.
UnknownSession == 0

NoSession == [status |-> "none"]

\* A challenge_id the server never issued.
BogusChallenge == <<0, 0>>

NoToken == <<>>

\* "No request": the event loop is idle.
NoRequest == [sid |-> -1, cid |-> BogusChallenge, overtaken |-> FALSE]

NoResult == [code |-> "none"]

NoRecord == [device_id |-> "none"]

\* device_id=None
NoDevice == "none"

\* active_challenges has no entry for the device
NoChallengeSession == [index |-> -1]

\* verify_challenge_token has not been called yet
NoTokenCheck == [valid |-> FALSE, message |-> "none"]

\* a token no challenge was issued with
BogusToken == <<0, 0>>

\* generate_adaptive_challenges has not been called yet
NoGeneration == [num |-> -1]

\* a worker thread with no request
Idle == [pc |-> "idle"]

\* no /v1/verify or /v1/trusted-check request of src/main.py answered yet
NoLegacyResponse == [op |-> "none", code |-> "none"]

\* no /v1/challenge request answered yet
NoCall == [device_id |-> "none"]

VARIABLES
    verification_sessions,  \* session_id -> session, or NoSession
    trusted_devices,        \* device_id -> token, or NoToken
    now,                    \* datetime.utcnow() / time.time(), in minutes
    inflight,               \* bag of verify requests sent and not yet handled
    handling,               \* the verify request blocked in the analyzer call
    resp,                   \* the last response a backend handler returned
    trust_result,           \* the body of the last finalize response
    uploads,                \* the videos written to uploads/, with their session
    in_memory_sessions,     \* src/main.py: the session records finalize_session kept
    TRUSTED_DEVICES,        \* src/main.py: device_id -> trust record, or NoRecord
    clock,                  \* src/main.py: time.time(), in days
    challenges_table,       \* src/main.py: the rows of table "challenges"
    challenge_call,         \* src/main.py: the last /v1/challenge request and its answer
    workers,                \* src/main.py: worker thread -> the request it is in
    legacy_resp,            \* src/main.py: the last verify / trusted-check response
    analysed,               \* src/main.py: bag of challenge ids handed to the analyzer
    USED_TOKENS,            \* src/main.py: set of trusted-device tokens already accepted
    accepted,               \* src/main.py: bag of tokens trusted-check answered trusted for
    active_challenges,      \* src/challenge_engine.py: device_id -> token session
    generated,              \* src/challenge_engine.py: calls made (uuid4 freshness)
    generation,             \* src/challenge_engine.py: the last call and what it returned
    engine_now,             \* src/challenge_engine.py: datetime.utcnow(), in minutes
    token_check             \* src/challenge_engine.py: what verify_challenge_token last returned

backendVars == <<verification_sessions, trusted_devices, now, inflight, handling,
                 resp, trust_result, uploads>>

legacyVars == <<in_memory_sessions, TRUSTED_DEVICES, clock, challenges_table,
               challenge_call, workers, legacy_resp, analysed, USED_TOKENS,
               accepted>>

engineVars == <<active_challenges, generated, generation, engine_now, token_check>>

vars == <<verification_sessions, trusted_devices, now, inflight, handling, resp,
          trust_result, uploads, in_memory_sessions, TRUSTED_DEVICES, clock,
          challenges_table, challenge_call, workers, legacy_resp, analysed,
          USED_TOKENS, accepted,
          active_challenges, generated,
          generation, engine_now, token_check>>

\* ------------------------------------------------- challenge_engine (backend)

\* difficulty of one issued challenge: "medium" without previous results,
\* random.choice(["easy", "medium"]) for a trusted device.
Difficulties(trusted) == IF trusted THEN {"easy", "medium"} ELSE {"medium"}

\* The slot start_verification builds from challenge number idx (0-based).
AuthoritativeChallenge(sid, idx, difficulty) ==
    [challenge_id |-> <<sid, idx>>,
     difficulty   |-> difficulty,
     order        |-> idx,
     attempts     |-> 0,
     max_attempts |-> MAX_RETRIES_PER_CHALLENGE,
     passed       |-> FALSE,
     used         |-> FALSE]

\* ------------------------------------------------------------ session reads

Session(sid) == IF sid \in SessionIds THEN verification_sessions[sid] ELSE NoSession

Exists(sid) == Session(sid) # NoSession

\* not session or session["status"] != "active"
Inactive(sid) == ~Exists(sid) \/ Session(sid).status # "active"

NumSlots(sid) == Len(Session(sid).challenges)

\* session["challenges"][idx] for the 0-based idx
Slot(sid, idx) == Session(sid).challenges[idx + 1]

\* datetime.utcnow() > session["expires_at"]
PastExpiry(sid) == now > Session(sid).expires_at

\* ---------------------------------------------------------------- requests

IssuedIds(sid) == {<<sid, i>> : i \in 0..(NUM_CHALLENGES - 1)}

\* The verify requests a client can send: to an unknown session, or to a
\* session with one of its challenge ids or an id never issued.
Requests ==
    {[sid |-> UnknownSession, cid |-> BogusChallenge, overtaken |-> FALSE]}
    \cup UNION {{[sid |-> s, cid |-> c, overtaken |-> FALSE] :
                    c \in IssuedIds(s) \cup {BogusChallenge}} : s \in SessionIds}

InFlightCount == BagCardinality(inflight) + (IF handling = NoRequest THEN 0 ELSE 1)

\* ---------------------------------------------------------------- Init

Init ==
    /\ verification_sessions = [s \in SessionIds |-> NoSession]
    /\ trusted_devices = [d \in Devices |-> NoToken]
    /\ now = 0
    /\ inflight = EmptyBag
    /\ handling = NoRequest
    /\ resp = [op |-> "none", code |-> "none"]
    /\ trust_result = NoResult
    /\ uploads = {}
    /\ in_memory_sessions = <<>>
    /\ TRUSTED_DEVICES = [d \in Devices |-> NoRecord]
    /\ clock = 0
    /\ challenges_table = <<>>
    /\ challenge_call = NoCall
    /\ workers = [w \in 1..MaxWorkers |-> Idle]
    /\ legacy_resp = NoLegacyResponse
    /\ analysed = EmptyBag
    /\ USED_TOKENS = {}
    /\ accepted = EmptyBag
    /\ active_challenges = [d \in Devices |-> NoChallengeSession]
    /\ generated = 0
    /\ generation = NoGeneration
    /\ engine_now = 0
    /\ token_check = NoTokenCheck

\* ------------------------------------------------------- start_verification

start_verification(device_id) ==
    \E sid \in SessionIds :
        /\ ~Exists(sid)
        /\ \A s \in SessionIds : s < sid => Exists(s)
        /\ LET trusted == trusted_devices[device_id] # NoToken IN
           \E diff \in [1..NUM_CHALLENGES -> Difficulties(trusted)] :
               verification_sessions' =
                   [verification_sessions EXCEPT ![sid] =
                       [device_id     |-> device_id,
                        status        |-> "active",
                        created_at    |-> now,
                        expires_at    |-> now + SESSION_LIFETIME,
                        challenges    |-> [i \in 1..NUM_CHALLENGES |->
                                             AuthoritativeChallenge(sid, i - 1, diff[i])],
                        current_index |-> 0]]
        /\ resp' = [op |-> "start", code |-> "ok"]
        /\ UNCHANGED uploads
        /\ UNCHANGED <<trusted_devices, now, inflight, handling, trust_result>>
        /\ UNCHANGED legacyVars
        /\ UNCHANGED engineVars

\* ---------------------------------------------------- get_current_challenge

get_current_challenge(sid) ==
    /\ IF Inactive(sid)
         THEN /\ resp' = [op |-> "challenge", code |-> "invalid_or_inactive_session"]
              /\ UNCHANGED verification_sessions
         ELSE IF PastExpiry(sid)
         THEN /\ verification_sessions' =
                     [verification_sessions EXCEPT ![sid].status = "expired"]
              /\ resp' = [op |-> "challenge", code |-> "session_expired"]
         ELSE IF Session(sid).current_index >= NumSlots(sid)
         THEN /\ resp' = [op |-> "challenge", code |-> "no_remaining_challenges"]
              /\ UNCHANGED verification_sessions
         ELSE /\ resp' = [op |-> "challenge", code |-> "ok"]
              /\ UNCHANGED verification_sessions
    /\ UNCHANGED uploads
    /\ UNCHANGED <<trusted_devices, now, inflight, handling, trust_result>>
    /\ UNCHANGED legacyVars
    /\ UNCHANGED engineVars

\* --------------------------------------------------------- verify_challenge

\* A client sends a verify request; it waits for the event loop.
SubmitVerify(r) ==
    /\ InFlightCount < MaxInflight
    /\ inflight' = inflight (+) SetToBag({r})
    /\ UNCHANGED uploads
    /\ UNCHANGED <<verification_sessions, trusted_devices, now, handling, resp,
                   trust_result>>
    /\ UNCHANGED legacyVars
    /\ UNCHANGED engineVars

\* VerifyOutcome without the order check of lines 115-116.
VerifyOutcome_NoOrderCheck(sid, cid) ==
    IF Inactive(sid) THEN "invalid_session"
    ELSE IF Session(sid).current_index >= NumSlots(sid) THEN "index_error"
    ELSE LET challenge == Slot(sid, Session(sid).current_index) IN
         IF challenge.used THEN "challenge_already_used"
         ELSE IF challenge.attempts >= challenge.max_attempts THEN "retry_limit_exceeded"
         ELSE "proceed"

\* Lines 107-122: the answer of the checks, "proceed" when all of them pass.
\* session["challenges"][idx] with idx = len(challenges) raises IndexError,
\* which no handler catches (HTTP 500).
VerifyOutcome(sid, cid) ==
    IF Inactive(sid) THEN "invalid_session"
    ELSE IF Session(sid).current_index >= NumSlots(sid) THEN "index_error"
    ELSE LET challenge == Slot(sid, Session(sid).current_index) IN
         IF challenge.challenge_id # cid THEN "challenge_order_violation"
         ELSE IF challenge.used THEN "challenge_already_used"
         ELSE IF challenge.attempts >= challenge.max_attempts THEN "retry_limit_exceeded"
         ELSE "proceed"

\* AfterEvaluation with "if" for the "else" of line 136: a pass on the last
\* attempt advances current_index twice.
AfterEvaluation_NoElse(session, challenge_passed) ==
    LET i   == session.current_index + 1
        ch  == session.challenges[i]
        ch1 == [ch EXCEPT !.attempts = ch.attempts + 1, !.used = TRUE]
        ch2 == IF challenge_passed
                 THEN [ch1 EXCEPT !.passed = TRUE]
                 ELSE [ch1 EXCEPT !.used = FALSE]
        steps == (IF challenge_passed THEN 1 ELSE 0)
                 + (IF ch2.attempts >= ch2.max_attempts THEN 1 ELSE 0)
    IN  [session EXCEPT !.challenges[i] = ch2, !.current_index = @ + steps]

\* AfterEvaluation without the retry test of line 138: any failure advances.
AfterEvaluation_AdvanceOnFail(session, challenge_passed) ==
    LET i   == session.current_index + 1
        ch  == session.challenges[i]
        ch1 == [ch EXCEPT !.attempts = ch.attempts + 1, !.used = TRUE]
        ch2 == IF challenge_passed
                 THEN [ch1 EXCEPT !.passed = TRUE]
                 ELSE [ch1 EXCEPT !.used = FALSE]
    IN  [session EXCEPT !.challenges[i] = ch2, !.current_index = @ + 1]

\* AfterEvaluation updating challenges[idx - 1] (Python's challenges[-1] is
\* the last slot) instead of challenges[idx].
AfterEvaluation_OffByOne(session, challenge_passed) ==
    LET i   == IF session.current_index = 0 THEN Len(session.challenges)
               ELSE session.current_index
        ch  == session.challenges[i]
        ch1 == [ch EXCEPT !.attempts = ch.attempts + 1, !.used = TRUE]
        ch2 == IF challenge_passed
                 THEN [ch1 EXCEPT !.passed = TRUE]
                 ELSE [ch1 EXCEPT !.used = FALSE]
        advance == challenge_passed \/ ch2.attempts >= ch2.max_attempts
    IN  [session EXCEPT !.challenges[i] = ch2,
                        !.current_index = IF advance THEN @ + 1 ELSE @]

\* AfterEvaluation without line 137: a failed attempt leaves used set.
AfterEvaluation_UsedKept(session, challenge_passed) ==
    LET i   == session.current_index + 1
        ch  == session.challenges[i]
        ch1 == [ch EXCEPT !.attempts = ch.attempts + 1, !.used = TRUE]
        ch2 == IF challenge_passed THEN [ch1 EXCEPT !.passed = TRUE] ELSE ch1
        advance == challenge_passed \/ ch2.attempts >= ch2.max_attempts
    IN  [session EXCEPT !.challenges[i] = ch2,
                        !.current_index = IF advance THEN @ + 1 ELSE @]

\* Lines 130-139: the session after an evaluation of its current slot.
AfterEvaluation(session, challenge_passed) ==
    LET i   == session.current_index + 1
        ch  == session.challenges[i]
        ch1 == [ch EXCEPT !.attempts = ch.attempts + 1, !.used = TRUE]
        ch2 == IF challenge_passed
                 THEN [ch1 EXCEPT !.passed = TRUE]
                 ELSE [ch1 EXCEPT !.used = FALSE]
        advance == challenge_passed \/ ch2.attempts >= ch2.max_attempts
    IN  [session EXCEPT !.challenges[i] = ch2,
                        !.current_index = IF advance THEN @ + 1 ELSE @]

\* The event loop takes a request and runs lines 107-122.
verify_challenge_check(r) ==
    /\ handling = NoRequest
    /\ BagIn(r, inflight)
    /\ inflight' = inflight (-) SetToBag({r})
    /\ LET outcome == VerifyOutcome(r.sid, r.cid) IN
       IF outcome = "proceed"
         THEN /\ handling' = r
              /\ UNCHANGED resp
         ELSE /\ handling' = NoRequest
              /\ resp' = [op |-> "verify", code |-> outcome]
    /\ UNCHANGED uploads
    /\ UNCHANGED <<verification_sessions, trusted_devices, now, trust_result>>
    /\ UNCHANGED legacyVars
    /\ UNCHANGED engineVars

\* A request still in flight for the slot that another request just changed.
Overtake(r, q) ==
    IF q.sid = r.sid /\ q.cid = r.cid THEN [q EXCEPT !.overtaken = TRUE] ELSE q

\* The contents of the video of a request
Media == 1..MaxMedia

\* SessionAfterAnalyzer with the attempt counted before the analyzer is called
SessionAfterAnalyzer_CountsFirst(session, evaluation) ==
    IF evaluation = "raise"
      THEN [session EXCEPT !.challenges[session.current_index + 1].attempts = @ + 1]
      ELSE AfterEvaluation(session, evaluation = "pass")

\* Lines 128-139: the session after the analyzer call.  An exception of
\* run_human_verification leaves line 128 before any write to the session.
SessionAfterAnalyzer(session, evaluation) ==
    IF evaluation = "raise" THEN session
    ELSE AfterEvaluation(session, evaluation = "pass")

\* Lines 124-145: the video is written to uploads/, then the analyzer call
\* (it passes, fails, or raises) and the update.  The handler first looks at
\* the video here, so its contents are drawn here.
verify_challenge_apply(evaluation) ==
    /\ handling # NoRequest
    /\ handling' = NoRequest
    /\ \E media \in Media : uploads' = uploads \cup {<<handling.sid, media>>}
    /\ verification_sessions' =
           [verification_sessions EXCEPT ![handling.sid] =
               SessionAfterAnalyzer(@, evaluation)]
    /\ IF evaluation = "raise"
         THEN /\ resp' = [op |-> "verify", code |-> "analyzer_error"]
              /\ UNCHANGED inflight
         ELSE /\ inflight' = BagOfAll(LAMBDA q : Overtake(handling, q), inflight)
              /\ resp' = [op |-> "verify",
                          code |-> IF evaluation = "pass" THEN "passed" ELSE "not_passed"]
    /\ UNCHANGED <<trusted_devices, now, trust_result>>
    /\ UNCHANGED legacyVars
    /\ UNCHANGED engineVars

\* ----------------------------------------------------------------- finalize

Max(a, b) == IF a >= b THEN a ELSE b

Min(a, b) == IF a <= b THEN a ELSE b

PassedCount(session) ==
    Cardinality({i \in 1..Len(session.challenges) : session.challenges[i].passed})

\* max(30, min(100, int((passed / len(challenges)) * 100)))
BackendTrustScore(passed, total) ==
    Max(SCORE_FLOOR, Min(SCORE_CEIL, (passed * 100) \div total))

\* "high" if trust_score >= 85 else "medium" if trust_score >= 60 else "low"
TrustLevel(trust_score) ==
    IF trust_score >= HIGH_TRUST THEN "high"
    ELSE IF trust_score >= MEDIUM_TRUST THEN "medium"
    ELSE "low"

finalize(sid) ==
    /\ IF ~Exists(sid)
         THEN /\ resp' = [op |-> "finalize", code |-> "invalid_session"]
              /\ UNCHANGED <<verification_sessions, trusted_devices, trust_result>>
         ELSE LET session     == Session(sid)
                  passed      == PassedCount(session)
                  failed      == Len(session.challenges) - passed
                  trust_score == BackendTrustScore(passed, Len(session.challenges))
              IN  /\ trusted_devices' =
                         IF trust_score >= HIGH_TRUST
                           THEN [trusted_devices EXCEPT ![session.device_id] =
                                    <<session.device_id, now>>]
                           ELSE trusted_devices
                  /\ verification_sessions' =
                         [verification_sessions EXCEPT ![sid].status = "completed"]
                  /\ trust_result' = [code        |-> "ok",
                                      sid         |-> sid,
                                      trust_score |-> trust_score,
                                      trust_level |-> TrustLevel(trust_score),
                                      passed      |-> passed,
                                      failed      |-> failed]
                  /\ resp' = [op |-> "finalize", code |-> "ok"]
    /\ UNCHANGED uploads
    /\ UNCHANGED <<now, inflight, handling>>
    /\ UNCHANGED legacyVars
    /\ UNCHANGED engineVars

\* -------------------------------------------------------------------- clock

Tick ==
    /\ now < MaxTime
    /\ now' = now + 1
    /\ UNCHANGED uploads
    /\ UNCHANGED <<verification_sessions, trusted_devices, inflight, handling, resp,
                   trust_result>>
    /\ UNCHANGED legacyVars
    /\ UNCHANGED engineVars

\* ------------------------------------------------- src/main.py: finalize_session

\* Scores are integers in hundredths: liveness 96 is 0.96, trust_score 8450
\* is 84.50 (the source rounds the base score to two decimals).

\* The result objects a client can put in the payload: what verify returned
\* for a passed challenge and for a failed one, the spec's example, a
\* client-made one with fields out of range and heavy blinking, two that
\* score exactly 85.00 and 60.00, and a failed one with high scores.
ResultInputs ==
    {[liveness_score |-> 96, lip_sync_score |-> 93, reaction_time |-> 100,
      facial_stability |-> 100, blink_count |-> 0, challenge_passed |-> TRUE],
     [liveness_score |-> 0, lip_sync_score |-> 0, reaction_time |-> 100,
      facial_stability |-> 100, blink_count |-> 0, challenge_passed |-> FALSE],
     [liveness_score |-> 90, lip_sync_score |-> 90, reaction_time |-> 100,
      facial_stability |-> 100, blink_count |-> 2, challenge_passed |-> TRUE],
     [liveness_score |-> 150, lip_sync_score |-> -20, reaction_time |-> 40,
      facial_stability |-> 100, blink_count |-> 20, challenge_passed |-> FALSE],
     [liveness_score |-> 100, lip_sync_score |-> 80, reaction_time |-> 100,
      facial_stability |-> 100, blink_count |-> 0, challenge_passed |-> TRUE],
     [liveness_score |-> 100, lip_sync_score |-> 100, reaction_time |-> 0,
      facial_stability |-> 0, blink_count |-> 0, challenge_passed |-> TRUE],
     [liveness_score |-> 90, lip_sync_score |-> 90, reaction_time |-> 100,
      facial_stability |-> 100, blink_count |-> 0, challenge_passed |-> FALSE]}

UserAgents == {"uaA", "uaB"}

ResultLists == UNION {[1..n -> ResultInputs] : n \in 0..MaxResults}

\* max(0, min(1, x)), in hundredths
Clamp01(x) == Max(0, Min(100, x))

\* min((blink_count - 5) * 0.02, 0.2) when blink_count > 5, in units of 1/10000
BlinkPenalty(blink_count) ==
    IF blink_count > 5 THEN Min((blink_count - 5) * 200, 2000) ELSE 0

\* challenge_trust of one result, in units of 1/10000
ChallengeTrust(r) ==
    Clamp01(r.liveness_score) * 35 + Clamp01(r.lip_sync_score) * 25
    + Clamp01(r.reaction_time) * 15 + Clamp01(r.facial_stability) * 15
    - BlinkPenalty(r.blink_count)

RECURSIVE SumTrust(_)
SumTrust(results) ==
    IF results = <<>> THEN 0
    ELSE ChallengeTrust(Head(results)) + SumTrust(Tail(results))

\* round(a / b, 2) of the source, for a >= 0 and b > 0: the nearest integer
\* (of hundredths).  At an exact tie the source rounds a binary float that
\* lies a rounding error above or below the tie, so either neighbour can
\* come out: both are returned.
RoundDiv(a, b) ==
    LET q == a \div b
        r == a % b
    IN  IF 2 * r > b THEN {q + 1}
        ELSE IF 2 * r < b THEN {q}
        ELSE {q, q + 1}

\* round(max(30, min(100, base_trust * 100)), 2), in hundredths;
\* base_trust * 100 is sum / n hundredths.
BaseScores(results) ==
    LET sum == SumTrust(results)
        n   == Len(results)
    IN  IF sum <= SCORE_FLOOR * 100 * n THEN {SCORE_FLOOR * 100}
        ELSE IF sum >= SCORE_CEIL * 100 * n THEN {SCORE_CEIL * 100}
        ELSE RoundDiv(sum, n)

FailedChallenges(results) ==
    Cardinality({i \in 1..Len(results) : ~results[i].challenge_passed})

\* FailurePenalty with three or more failures penalised like two
FailurePenalty_CappedAtTwo(failed_challenges) ==
    IF failed_challenges = 1 THEN 1000
    ELSE IF failed_challenges >= 2 THEN 2500
    ELSE 0

\* Soft penalties for failed challenges, in hundredths
FailurePenalty(failed_challenges) ==
    IF failed_challenges = 1 THEN 1000
    ELSE IF failed_challenges = 2 THEN 2500
    ELSE IF failed_challenges >= 3 THEN 4000
    ELSE 0

\* trust_score after the penalty: max(30, trust_score - penalty), in hundredths
PenalisedScore(base, failed_challenges) ==
    Max(SCORE_FLOOR * 100, base - FailurePenalty(failed_challenges))

\* The trust_score values finalize_session can return, in hundredths
LegacyTrustScores(results) ==
    IF results = <<>> THEN {0}
    ELSE {PenalisedScore(base, FailedChallenges(results)) : base \in BaseScores(results)}

\* LegacyTrustLevel with "> 85" in place of ">= 85"
LegacyTrustLevel_StrictHigh(results, trust_score) ==
    IF results = <<>> THEN "low"
    ELSE IF trust_score > HIGH_TRUST * 100 THEN "high"
    ELSE IF trust_score >= MEDIUM_TRUST * 100 THEN "medium"
    ELSE "low"

\* The trust level finalize_session returns with a score (in hundredths);
\* "low" without looking at the score when there are no results.
LegacyTrustLevel(results, trust_score) ==
    IF results = <<>> THEN "low"
    ELSE IF trust_score >= HIGH_TRUST * 100 THEN "high"
    ELSE IF trust_score >= MEDIUM_TRUST * 100 THEN "medium"
    ELSE "low"

finalize_session(results, device_id, user_agent) ==
    /\ Len(in_memory_sessions) < MaxRecords
    /\ \E trust_score \in LegacyTrustScores(results) :
       LET session_id == Len(in_memory_sessions) + 1
           token      == <<device_id, user_agent, session_id>>
           session_record ==
               [session_id        |-> session_id,
                device_id         |-> device_id,
                trust_score       |-> trust_score,
                trust_level       |-> LegacyTrustLevel(results, trust_score),
                failed_challenges |-> IF results = <<>> THEN 0
                                      ELSE FailedChallenges(results),
                total_challenges  |-> Len(results),
                trusted_device_token |-> token,
                trusted_until     |-> clock + TRUST_DURATION_DAYS]
       IN  /\ TRUSTED_DEVICES' =
                  [TRUSTED_DEVICES EXCEPT ![device_id] =
                      [trusted_device_token |-> token,
                       device_id  |-> device_id,
                       user_agent |-> user_agent,
                       session_id |-> session_id,
                       issued_at  |-> clock,
                       expires_at |-> clock + TRUST_DURATION_DAYS]]
           /\ in_memory_sessions' = Append(in_memory_sessions, session_record)
    /\ UNCHANGED <<clock, challenges_table, challenge_call>>
    /\ UNCHANGED <<workers, legacy_resp, analysed, USED_TOKENS, accepted>>
    /\ UNCHANGED backendVars
    /\ UNCHANGED engineVars

\* time.time() moves on.
LegacyTick ==
    /\ clock + ClockStep <= MaxClock
    /\ clock' = clock + ClockStep
    /\ UNCHANGED <<in_memory_sessions, TRUSTED_DEVICES, challenges_table,
                   challenge_call>>
    /\ UNCHANGED <<workers, legacy_resp, analysed, USED_TOKENS, accepted>>
    /\ UNCHANGED backendVars
    /\ UNCHANGED engineVars

\* ------------------------------------------------ get_challenge (src/main.py)

\* TrustedDevice with the grant still honoured at the instant it expires
TrustedDevice_AtExpiry(device_id, user_agent) ==
    LET record == TRUSTED_DEVICES[device_id]
    IN  /\ record # NoRecord
        /\ record.user_agent = user_agent
        /\ record.expires_at >= clock

\* record and record["user_agent"] == user_agent and record["expires_at"] > now
TrustedDevice(device_id, user_agent) ==
    LET record == TRUSTED_DEVICES[device_id]
    IN  /\ record # NoRecord
        /\ record.user_agent = user_agent
        /\ record.expires_at > clock

\* GET /v1/challenge: decides whether the device is trusted, inserts three
\* fresh unused rows and answers with their ids and the trusted flag.
\* generate_challenges is not among the sources; the rows carry what the
\* handler itself reads of a challenge, its id.
get_challenge(device_id, user_agent) ==
    /\ Len(challenges_table) < NUM_CHALLENGES * MaxIssues
    /\ LET first == Len(challenges_table)
           rows  == [i \in 1..NUM_CHALLENGES |->
                        [challenge_id |-> first + i, created_at |-> clock, used |-> 0]]
       IN  /\ challenges_table' = challenges_table \o rows
           /\ challenge_call' =
                  [device_id      |-> device_id,
                   user_agent     |-> user_agent,
                   now            |-> clock,
                   challenges     |-> [i \in 1..NUM_CHALLENGES |-> rows[i].challenge_id],
                   trusted_device |-> TrustedDevice(device_id, user_agent)]
    /\ UNCHANGED <<in_memory_sessions, TRUSTED_DEVICES, clock>>
    /\ UNCHANGED <<workers, legacy_resp, analysed, USED_TOKENS, accepted>>
    /\ UNCHANGED backendVars
    /\ UNCHANGED engineVars

\* ------------------------------------------------------ verify (src/main.py)

Workers == 1..MaxWorkers

\* The challenge ids a client can send: the ids get_challenge can have
\* handed out, and one that was never issued.
ChallengeIds == 0..(NUM_CHALLENGES * MaxIssues)

\* SELECT ... FROM challenges WHERE challenge_id=?: the rows found
RowsOf(challenge_id) ==
    {i \in DOMAIN challenges_table : challenges_table[i].challenge_id = challenge_id}

\* Lines 104-115: what the row that was read makes of the request.
VerifyRowOutcome(challenge_id) ==
    IF RowsOf(challenge_id) = {} THEN "invalid_challenge"
    ELSE IF \E i \in RowsOf(challenge_id) : challenges_table[i].used = 1
      THEN "challenge_already_used"
    ELSE "proceed"

\* Lines 104-115 on worker thread w: read the row and answer 400 when there
\* is none or it is used.
verify_select(w, challenge_id) ==
    /\ workers[w] = Idle
    /\ LET outcome == VerifyRowOutcome(challenge_id) IN
       IF outcome = "proceed"
         THEN /\ workers' = [workers EXCEPT ![w] =
                                [pc |-> "verify", challenge_id |-> challenge_id]]
              /\ UNCHANGED legacy_resp
         ELSE /\ legacy_resp' = [op |-> "verify", code |-> outcome]
              /\ UNCHANGED workers
    /\ UNCHANGED <<in_memory_sessions, TRUSTED_DEVICES, clock, challenges_table,
                   challenge_call, analysed, USED_TOKENS, accepted>>
    /\ UNCHANGED backendVars
    /\ UNCHANGED engineVars

\* Lines 117-147 on worker thread w: mark the row used, commit, store the
\* upload, call the analyzer (it passes, fails, or raises) and answer.
verify_update(w, evaluation) ==
    /\ workers[w].pc = "verify"
    /\ LET challenge_id == workers[w].challenge_id IN
       /\ challenges_table' =
              [i \in DOMAIN challenges_table |->
                  IF challenges_table[i].challenge_id = challenge_id
                    THEN [challenges_table[i] EXCEPT !.used = 1]
                    ELSE challenges_table[i]]
       /\ analysed' = analysed (+) SetToBag({challenge_id})
    /\ workers' = [workers EXCEPT ![w] = Idle]
    /\ legacy_resp' = [op |-> "verify",
                       code |-> CASE evaluation = "pass" -> "passed"
                                  [] evaluation = "fail" -> "not_passed"
                                  [] OTHER -> "analyzer_error"]
    /\ UNCHANGED <<in_memory_sessions, TRUSTED_DEVICES, clock, challenge_call,
                   USED_TOKENS, accepted>>
    /\ UNCHANGED backendVars
    /\ UNCHANGED engineVars

\* ----------------------------------------------- trusted_check (src/main.py)

\* The tokens a client can send: every token finalize_session can have
\* issued, and one it never issued.
TrustTokens ==
    {<<d, ua, k>> : d \in Devices, ua \in UserAgents, k \in 1..MaxRecords}
        \cup {<<NoDevice, NoDevice, 0>>}

\* Lines 249-257: the stored record is the one of this token and user agent
\* and has not run out.
RecordMatches(token, device_id, user_agent) ==
    LET record == TRUSTED_DEVICES[device_id]
    IN  /\ record # NoRecord
        /\ record.trusted_device_token = token
        /\ record.user_agent = user_agent
        /\ ~(record.expires_at < clock)

\* Lines 245-246 on worker thread w: a token found in USED_TOKENS is answered
\* 403 "Replay detected".
trusted_check_test(w, token, device_id, user_agent) ==
    /\ workers[w] = Idle
    /\ IF token \in USED_TOKENS
         THEN /\ legacy_resp' = [op |-> "trusted_check", code |-> "replay_detected"]
              /\ UNCHANGED workers
         ELSE /\ workers' = [workers EXCEPT ![w] =
                                [pc         |-> "trusted_check",
                                 token      |-> token,
                                 device_id  |-> device_id,
                                 user_agent |-> user_agent]]
              /\ UNCHANGED legacy_resp
    /\ UNCHANGED <<in_memory_sessions, TRUSTED_DEVICES, clock, challenges_table,
                   challenge_call, analysed, USED_TOKENS, accepted>>
    /\ UNCHANGED backendVars
    /\ UNCHANGED engineVars

\* Lines 248-260 on worker thread w: compare with the stored record and, on
\* a match, add the token to USED_TOKENS and answer trusted.
trusted_check_finish(w) ==
    /\ workers[w].pc = "trusted_check"
    /\ LET request == workers[w] IN
       IF RecordMatches(request.token, request.device_id, request.user_agent)
         THEN /\ USED_TOKENS' = USED_TOKENS \cup {request.token}
              /\ accepted' = accepted (+) SetToBag({request.token})
              /\ legacy_resp' = [op |-> "trusted_check", code |-> "trusted"]
         ELSE /\ legacy_resp' = [op |-> "trusted_check", code |-> "not_trusted"]
              /\ UNCHANGED <<USED_TOKENS, accepted>>
    /\ workers' = [workers EXCEPT ![w] = Idle]
    /\ UNCHANGED <<in_memory_sessions, TRUSTED_DEVICES, clock, challenges_table,
                   challenge_call, analysed>>
    /\ UNCHANGED backendVars
    /\ UNCHANGED engineVars

\* ------------------------------------------------- src/challenge_engine.py

\* timedelta(minutes=10): the life of a token session
TOKEN_SESSION_MINUTES == 10

\* liveness_score values of previous results, in hundredths
LivenessInputs == {20, 50, 65, 80, 95}

PrevResultLists ==
    UNION {[1..n -> [liveness_score : LivenessInputs]] : n \in 0..MaxPrev}

RECURSIVE SumLiveness(_)
SumLiveness(prev_results) ==
    IF prev_results = <<>> THEN 0
    ELSE prev_results[1].liveness_score + SumLiveness(Tail(prev_results))

\* The difficulty the average of the previous liveness scores gives (lines
\* 12-20): "medium" without previous results, "hard" above 0.8, "easy" below
\* 0.5.  The average is a float quotient: where it is exactly 0.8 or 0.5 in
\* decimal, rounding decides on which side of the threshold it lands.
AverageDifficulties(prev_results) ==
    LET sum == SumLiveness(prev_results)
        n   == Len(prev_results)
    IN  IF n = 0 THEN {"medium"}
        ELSE IF sum > 80 * n THEN {"hard"}
        ELSE IF sum = 80 * n THEN {"medium", "hard"}
        ELSE IF sum < 50 * n THEN {"easy"}
        ELSE IF sum = 50 * n THEN {"medium", "easy"}
        ELSE {"medium"}

\* SlotDifficulties with a "hard" from the average kept for a trusted device
SlotDifficulties_HardKept(average_difficulty, trusted) ==
    IF trusted /\ average_difficulty # "hard" THEN {"easy", "medium"}
    ELSE {average_difficulty}

\* The difficulty of one challenge (lines 17-22): the one the average gives,
\* replaced by random.choice(["easy", "medium"]) for a trusted device.
SlotDifficulties(average_difficulty, trusted) ==
    IF trusted THEN {"easy", "medium"} ELSE {average_difficulty}

generate_adaptive_challenges(prev_results, num, trusted, device_id) ==
    /\ generated < MaxGenerations
    /\ \E average_difficulty \in AverageDifficulties(prev_results) :
       \E difficulty \in [1..num -> SlotDifficulties(average_difficulty, trusted)] :
          LET challenges == [i \in 1..num |->
                                [difficulty |-> difficulty[i],
                                 fast_track |-> trusted,
                                 token      |-> <<generated + 1, i>>]]
          IN  /\ generation' = [prev_results |-> prev_results,
                                num          |-> num,
                                trusted      |-> trusted,
                                device_id    |-> device_id,
                                challenges   |-> challenges]
              /\ active_challenges' =
                     IF device_id = NoDevice THEN active_challenges
                     ELSE [active_challenges EXCEPT ![device_id] =
                              [index  |-> 0,
                               tokens |-> [i \in 1..num |-> challenges[i].token],
                               expiry |-> engine_now + TOKEN_SESSION_MINUTES]]
    /\ generated' = generated + 1
    /\ UNCHANGED <<engine_now, token_check>>
    /\ UNCHANGED backendVars
    /\ UNCHANGED legacyVars

\* The tokens a caller can present: every token a challenge can have been
\* issued with, and one that never was.
Tokens ==
    {<<g, i>> : g \in 1..MaxGenerations, i \in 1..NUM_CHALLENGES} \cup {BogusToken}

\* TokenOutcome with any token of the session accepted, whatever its place
TokenOutcome_AnyListed(device_id, token) ==
    LET session == IF device_id \in Devices THEN active_challenges[device_id]
                   ELSE NoChallengeSession
    IN  IF session = NoChallengeSession THEN "No active session"
        ELSE IF session.expiry < engine_now THEN "Session expired"
        ELSE IF session.index >= Len(session.tokens) THEN "All challenges completed"
        ELSE IF \A i \in DOMAIN session.tokens : token # session.tokens[i]
          THEN "Invalid token or out of order"
        ELSE "Valid"

\* The message verify_challenge_token returns (lines 53-71), the checks in
\* the order of the source.
TokenOutcome(device_id, token) ==
    LET session == IF device_id \in Devices THEN active_challenges[device_id]
                   ELSE NoChallengeSession
    IN  IF session = NoChallengeSession THEN "No active session"
        ELSE IF session.expiry < engine_now THEN "Session expired"
        ELSE IF session.index >= Len(session.tokens) THEN "All challenges completed"
        ELSE IF token # session.tokens[session.index + 1]
          THEN "Invalid token or out of order"
        ELSE "Valid"

\* verify_challenge_token: an expired session is deleted, a valid token moves
\* index on by one, every other call changes nothing.
verify_challenge_token(device_id, token) ==
    /\ LET outcome == TokenOutcome(device_id, token) IN
       /\ token_check' = [valid |-> outcome = "Valid", message |-> outcome]
       /\ active_challenges' =
              IF outcome = "Session expired"
                THEN [active_challenges EXCEPT ![device_id] = NoChallengeSession]
              ELSE IF outcome = "Valid"
                THEN [active_challenges EXCEPT ![device_id].index = @ + 1]
              ELSE active_challenges
    /\ UNCHANGED <<generated, generation, engine_now>>
    /\ UNCHANGED backendVars
    /\ UNCHANGED legacyVars

\* datetime.utcnow() moves on.
EngineTick ==
    /\ engine_now + EngineStep <= MaxEngineTime
    /\ engine_now' = engine_now + EngineStep
    /\ UNCHANGED <<active_challenges, generated, generation, token_check>>
    /\ UNCHANGED backendVars
    /\ UNCHANGED legacyVars

\* --------------------------------------------------------------------- Spec

Next ==
    \/ \E d \in Devices : start_verification(d)
    \/ \E sid \in SessionIds \cup {UnknownSession} : get_current_challenge(sid)
    \/ \E r \in Requests : SubmitVerify(r)
    \/ \E r \in DOMAIN inflight : verify_challenge_check(r)
    \/ \E e \in {"pass", "fail", "raise"} : verify_challenge_apply(e)
    \/ \E sid \in SessionIds \cup {UnknownSession} : finalize(sid)
    \/ Tick

Spec == Init /\ [][Next]_vars

NextLegacy ==
    \/ \E results \in ResultLists, d \in Devices, ua \in UserAgents :
           finalize_session(results, d, ua)
    \/ LegacyTick

SpecLegacy == Init /\ [][NextLegacy]_vars

NextLegacyApp ==
    \/ \E d \in Devices, ua \in UserAgents : get_challenge(d, ua)
    \/ \E results \in ResultLists, d \in Devices, ua \in UserAgents :
           finalize_session(results, d, ua)
    \/ LegacyTick

SpecLegacyApp == Init /\ [][NextLegacyApp]_vars

NextLegacyVerify ==
    \/ \E d \in Devices, ua \in UserAgents : get_challenge(d, ua)
    \/ \E w \in Workers, challenge_id \in ChallengeIds : verify_select(w, challenge_id)
    \/ \E w \in Workers, e \in {"pass", "fail", "raise"} : verify_update(w, e)

SpecLegacyVerify == Init /\ [][NextLegacyVerify]_vars

NextTrustedCheck ==
    \/ \E results \in ResultLists, d \in Devices, ua \in UserAgents :
           finalize_session(results, d, ua)
    \/ \E w \in Workers, token \in TrustTokens, d \in Devices, ua \in UserAgents :
           trusted_check_test(w, token, d, ua)
    \/ \E w \in Workers : trusted_check_finish(w)
    \/ LegacyTick

SpecTrustedCheck == Init /\ [][NextTrustedCheck]_vars

NextEngine ==
    \/ \E prev_results \in PrevResultLists, num \in 1..NUM_CHALLENGES,
          trusted \in BOOLEAN, d \in Devices \cup {NoDevice} :
           generate_adaptive_challenges(prev_results, num, trusted, d)
    \/ \E d \in Devices \cup {NoDevice}, token \in Tokens :
           verify_challenge_token(d, token)
    \/ EngineTick

SpecEngine == Init /\ [][NextEngine]_vars

\* ================================================================== claims

\* Reads of a session table vs (verification_sessions or its primed value).
ExistsIn(vs, sid) == vs[sid] # NoSession

IndexIn(vs, sid) == vs[sid].current_index

SlotIn(vs, sid, idx) == vs[sid].challenges[idx + 1]

SlotIndexes(vs, sid) == 0..(Len(vs[sid].challenges) - 1)

\* A slot that can accept no further submission: passed, or out of attempts.
Terminal(slot) == slot.passed \/ slot.attempts >= slot.max_attempts

\* C1: for every session and every step (start, challenge fetch, verify,
\* finalize, clock), current_index never decreases and never exceeds
\* len(challenges).
C1_IndexMonotoneBounded ==
    [][\A s \in SessionIds :
          ExistsIn(verification_sessions', s) =>
              /\ IndexIn(verification_sessions', s)
                     <= Len(verification_sessions'[s].challenges)
              /\ ExistsIn(verification_sessions, s) =>
                     IndexIn(verification_sessions', s)
                         >= IndexIn(verification_sessions, s)]_vars

\* C1 witness: a session whose current_index reached len(challenges) after a
\* forfeited slot.
C1_Witness ==
    \E s \in SessionIds :
        /\ Exists(s)
        /\ Session(s).current_index = NumSlots(s)
        /\ \E i \in SlotIndexes(verification_sessions, s) : ~Slot(s, i).passed

\* C2: every slot before current_index is terminal (passed, or attempts equal
\* to max_attempts) and every slot after current_index never accepted a
\* submission (attempts = 0, not passed).
C2_SlotsAroundIndex ==
    \A s \in SessionIds :
        Exists(s) =>
            \A i \in SlotIndexes(verification_sessions, s) :
                /\ i < Session(s).current_index =>
                       \/ Slot(s, i).passed
                       \/ Slot(s, i).attempts = Slot(s, i).max_attempts
                /\ i > Session(s).current_index =>
                       /\ Slot(s, i).attempts = 0
                       /\ ~Slot(s, i).passed

\* C2 witness: slot 0 forfeited, slot 1 current with one failed attempt,
\* slot 2 untouched.
C2_Witness ==
    \E s \in SessionIds :
        /\ Exists(s)
        /\ Session(s).current_index = 1
        /\ ~Slot(s, 0).passed /\ Slot(s, 0).attempts = MAX_RETRIES_PER_CHALLENGE
        /\ Slot(s, 1).attempts = 1
        /\ Slot(s, 2).attempts = 0

\* The slot of session sid that was issued under challenge id cid.
SlotOfId(sid, cid) == Slot(sid, cid[2])

C4_FailedEvaluationConsumes ==
    [][( /\ handling # NoRequest
         /\ verify_challenge_apply("fail") )
       => LET s      == handling.sid
              i      == Session(s).current_index
              before == Slot(s, i)
              after  == SlotIn(verification_sessions', s, i)
          IN  IF before.attempts + 1 >= before.max_attempts
                THEN /\ after.used
                     /\ ~after.passed
                     /\ IndexIn(verification_sessions', s) = i + 1
                ELSE /\ ~after.used
                     /\ IndexIn(verification_sessions', s) = i]_vars

\* C5: a verify request on an active session for a challenge_id whose slot has
\* attempts = max_attempts is answered "Challenge already used" or "Retry
\* limit exceeded" and does not reach the analyzer, the last slot included.
C5_ExhaustedSlotAlreadyConsumed ==
    [][\A r \in DOMAIN inflight :
          ( /\ ~Inactive(r.sid)
            /\ r.cid \in IssuedIds(r.sid)
            /\ SlotOfId(r.sid, r.cid).attempts = SlotOfId(r.sid, r.cid).max_attempts
            /\ verify_challenge_check(r) )
          => /\ resp'.code \in {"challenge_already_used", "retry_limit_exceeded"}
             /\ handling' = NoRequest]_vars

\* C6: passed changes only from false to true, and only by a passed evaluation
\* of the current slot; once a slot is consumed (passed, or attempts
\* exhausted) no step of any kind changes its passed flag or its attempts.
C6_ConsumedSlotFrozen ==
    [][\A s \in SessionIds :
          ExistsIn(verification_sessions, s) =>
              \A i \in SlotIndexes(verification_sessions, s) :
                  LET before == SlotIn(verification_sessions, s, i)
                      after  == SlotIn(verification_sessions', s, i)
                  IN  /\ before.passed => after.passed
                      /\ Terminal(before) =>
                             /\ after.attempts = before.attempts
                             /\ after.passed = before.passed
                      /\ (~before.passed /\ after.passed) =>
                             /\ handling # NoRequest
                             /\ handling.sid = s
                             /\ i = IndexIn(verification_sessions, s)
                             /\ verify_challenge_apply("pass")]_vars

\* C6 witness: slot 0 passed on its second attempt, slot 1 forfeited, and the
\* session finalized afterwards.
C6_Witness ==
    \E s \in SessionIds :
        /\ Exists(s)
        /\ Session(s).status = "completed"
        /\ Slot(s, 0).passed /\ Slot(s, 0).attempts = 2
        /\ ~Slot(s, 1).passed /\ Slot(s, 1).attempts = 2
        /\ Session(s).current_index = 2

\* C7: of two verify requests in flight together for the same session and the
\* same current slot, the one handled after the other has consumed an
\* attempt is rejected (StaleIndex) before the analyzer and changes
\* nothing.  Stated with any rejection code standing for StaleIndex, which
\* the source does not have.
C7_ConcurrentLoserRejected ==
    [][\A r \in DOMAIN inflight :
          (r.overtaken /\ verify_challenge_check(r))
          => /\ handling' = NoRequest
             /\ resp'.op = "verify"
             /\ resp'.code # "index_error"]_vars

\* C8: once the clock is past a session's expires_at, every verify request on
\* that session is rejected before the analyzer and leaves attempts, passed
\* and current_index as they were, whether or not a challenge fetch has
\* already stored the status "expired".
C8_ExpiredSessionRejects ==
    [][\A r \in DOMAIN inflight :
          ( /\ Exists(r.sid)
            /\ PastExpiry(r.sid)
            /\ verify_challenge_check(r) )
          => /\ handling' = NoRequest
             /\ resp'.op = "verify"
             /\ resp'.code # "index_error"
             /\ verification_sessions'[r.sid].challenges
                    = verification_sessions[r.sid].challenges
             /\ IndexIn(verification_sessions', r.sid)
                    = IndexIn(verification_sessions, r.sid)]_vars

\* C9: a session that is expired or completed keeps its status in every step.
C9_TerminalStatusStays ==
    [][\A s \in SessionIds :
          ( /\ ExistsIn(verification_sessions, s)
            /\ verification_sessions[s].status \in {"expired", "completed"} )
          => verification_sessions'[s].status = verification_sessions[s].status]_vars

\* C10: every trust_score finalize returned lies in [30, 100], in
\* src/backend/main.py (points) and in src/main.py (hundredths), an empty
\* result list included.
C10_TrustScoreInRange ==
    /\ trust_result # NoResult =>
           /\ trust_result.trust_score >= SCORE_FLOOR
           /\ trust_result.trust_score <= SCORE_CEIL
    /\ \A k \in 1..Len(in_memory_sessions) :
           /\ in_memory_sessions[k].trust_score >= SCORE_FLOOR * 100
           /\ in_memory_sessions[k].trust_score <= SCORE_CEIL * 100

\* trust_level is the level the thresholds give for trust_score; unit is 1
\* for a score in points and 100 for a score in hundredths.
LevelOfScore(trust_level, trust_score, unit) ==
    /\ trust_level = "high"   <=> trust_score >= 85 * unit
    /\ trust_level = "medium" <=> (trust_score >= 60 * unit /\ trust_score < 85 * unit)
    /\ trust_level = "low"    <=> trust_score < 60 * unit

\* C11: the trust_level of every finalize response is decided by the
\* trust_score of the same response alone: high iff score >= 85, medium iff
\* 60 <= score < 85, low iff score < 60 (src/backend/main.py in points,
\* src/main.py in hundredths).
C11_LevelFromScore ==
    /\ trust_result # NoResult =>
           LevelOfScore(trust_result.trust_level, trust_result.trust_score, 1)
    /\ \A k \in 1..Len(in_memory_sessions) :
           LevelOfScore(in_memory_sessions[k].trust_level,
                        in_memory_sessions[k].trust_score, 100)

\* finalize_session returned exactly 85.00 and called it high.
C11_Witness ==
    \E k \in 1..Len(in_memory_sessions) :
        /\ in_memory_sessions[k].trust_score = 8500
        /\ in_memory_sessions[k].trust_level = "high"

\* C12: a finalize of a session in which no slot has been passed or exhausted
\* is refused with NoChallenges: it returns no trust result, grants no device
\* trust and leaves the session as it was, not completed.
C12_EmptyFinalizeRefused ==
    [][\A s \in SessionIds :
          ( /\ ExistsIn(verification_sessions, s)
            /\ \A i \in SlotIndexes(verification_sessions, s) :
                   ~Terminal(SlotIn(verification_sessions, s, i))
            /\ finalize(s) )
          => /\ resp' = [op |-> "finalize", code |-> "no_challenges"]
             /\ trust_result' = trust_result
             /\ trusted_devices' = trusted_devices
             /\ verification_sessions' = verification_sessions]_vars

\* The penalty the specification gives for f failed slots, in hundredths.
PenaltyTable(f) == CASE f = 0 -> 0 [] f = 1 -> 1000 [] f = 2 -> 2500 [] OTHER -> 4000

\* The last record finalize_session appended.
LastRecord(records) == records[Len(records)]

C14_TrustOnlyAfterHigh ==
    \A d \in Devices :
        TRUSTED_DEVICES[d] # NoRecord =>
            \E k \in 1..Len(in_memory_sessions) :
                /\ in_memory_sessions[k].device_id = d
                /\ in_memory_sessions[k].trust_level = "high"

C16_TrustedNeverHard ==
    (generation # NoGeneration /\ generation.trusted) =>
        \A i \in DOMAIN generation.challenges :
            generation.challenges[i].difficulty \in {"easy", "medium"}

\* Three challenges were generated for a trusted device whose previous
\* results average above 0.8.
C16_Witness ==
    /\ generation # NoGeneration
    /\ generation.trusted
    /\ generation.num = 3
    /\ Len(generation.prev_results) > 0
    /\ SumLiveness(generation.prev_results) > 80 * Len(generation.prev_results)

\* C17: a verify request whose video has the contents of one already
\* submitted in the same session is refused with ReplayDetected before the
\* analyzer is called: no evaluation of it is applied, and the session, the
\* slot's attempts included, stays as it was.  (uploads is unchanged by the
\* handler exactly when these contents were already uploaded in this session.)
C17_ReplayRefused ==
    [][( /\ \E e \in {"pass", "fail"} : verify_challenge_apply(e)
         /\ uploads' = uploads )
       => /\ resp' = [op |-> "verify", code |-> "replay_detected"]
          /\ verification_sessions' = verification_sessions]_vars

\* a request without a binding token
NoBindingToken == "none"

\* The binding token a verify request carries: the form of verify_challenge
\* has the fields session_id, challenge_id and video, and no token.
RequestToken(r) == NoBindingToken

\* C18: a verify request is accepted only with the binding token of the
\* current slot: a request without the token is not passed on to the
\* analyzer, and where nothing else is wrong with it, it is refused with
\* InvalidToken.
C18_TokenRequired ==
    [][\A r \in DOMAIN inflight :
          (RequestToken(r) = NoBindingToken /\ verify_challenge_check(r))
          => /\ handling' = NoRequest
             /\ VerifyOutcome(r.sid, r.cid) = "proceed"
                    => resp' = [op |-> "verify", code |-> "invalid_token"]]_vars

\* C19: when the analyzer call raises, verify leaves the session as it was:
\* attempts, passed, used and current_index keep their values.
C19_AnalyzerFailureKeepsSession ==
    [][verify_challenge_apply("raise") =>
           verification_sessions' = verification_sessions]_vars

\* The analyzer raised on the retry of a slot: the slot still has its one
\* counted attempt and is still the current one.
C19_Witness ==
    /\ resp = [op |-> "verify", code |-> "analyzer_error"]
    /\ \E s \in SessionIds :
          /\ ExistsIn(verification_sessions, s)
          /\ verification_sessions[s].status = "active"
          /\ IndexIn(verification_sessions, s) = 1
          /\ SlotIn(verification_sessions, s, 1).attempts = 1
          /\ <<s, 1>> \in uploads

\* C20: every verify request that is not accepted is answered with one of
\* the handler's named refusals, never with an unhandled failure; a request
\* to an active session whose current_index has reached len(challenges) is
\* among them.
C20_NamedRefusalOnly ==
    resp.op = "verify" =>
        resp.code \in {"passed", "not_passed", "analyzer_error", "invalid_session",
                       "challenge_order_violation", "challenge_already_used",
                       "retry_limit_exceeded", "no_remaining_challenges"}

\* The token session of a device in a value of active_challenges.
TokenSession(ac, device_id) ==
    IF device_id \in Devices THEN ac[device_id] ELSE NoChallengeSession

\* C21: verify_challenge_token accepts the tokens of a device's session in
\* issued order and each at most once: a call is valid only for the token at
\* tokens[index], which no earlier valid call of the session was for, and
\* moves index on by exactly one; a rejected call leaves the session as it
\* was (or removes it, expired); index never exceeds len(tokens).
C21_TokensInOrderOnce ==
    [][\A d \in Devices \cup {NoDevice}, token \in Tokens :
          (generated' = generated /\ verify_challenge_token(d, token)) =>
              LET before == TokenSession(active_challenges, d)
                  after  == TokenSession(active_challenges', d)
              IN  /\ token_check'.valid =>
                         /\ before # NoChallengeSession
                         /\ before.index < Len(before.tokens)
                         /\ token = before.tokens[before.index + 1]
                         /\ \A i \in 1..before.index : token # before.tokens[i]
                         /\ after = [before EXCEPT !.index = before.index + 1]
                  /\ ~token_check'.valid =>
                         after = before \/ after = NoChallengeSession
                  /\ after # NoChallengeSession => after.index <= Len(after.tokens)]_vars

\* All three tokens of a device's second session were accepted, and the next
\* call was turned down.
C21_Witness ==
    /\ token_check.message = "All challenges completed"
    /\ \E d \in Devices :
          /\ active_challenges[d] # NoChallengeSession
          /\ active_challenges[d].index = 3
          /\ active_challenges[d].tokens[1][1] = 2

\* C22: each issued challenge_id is redeemed at most once: however the
\* verify requests that carry it interleave, at most one of them reaches the
\* analyzer.
C22_RedeemedAtMostOnce ==
    \A challenge_id \in ChallengeIds : CopiesIn(challenge_id, analysed) <= 1

\* C23: a trusted-device token is accepted by trusted_check at most once:
\* however the calls that carry it follow or overlap each other, at most one
\* of them is answered trusted = true.
C23_TokenAcceptedAtMostOnce ==
    \A token \in TrustTokens : CopiesIn(token, accepted) <= 1

RECURSIVE TotalAttempts(_)
\* The evaluations counted on the slots of a session.
TotalAttempts(challenges) ==
    IF challenges = <<>> THEN 0
    ELSE challenges[1].attempts + TotalAttempts(Tail(challenges))

\* C24: in an active session no slot has more than max_attempts attempts
\* (so the session has had at most len(challenges) * max_attempts
\* evaluations), and while current_index < len(challenges) the current slot
\* has used = false and attempts < max_attempts; hence no verify request is
\* ever refused as "Challenge already used" or "Retry limit exceeded".
C24_CurrentSlotOpen ==
    /\ \A s \in SessionIds :
          ( /\ ExistsIn(verification_sessions, s)
            /\ verification_sessions[s].status = "active" ) =>
              LET session == verification_sessions[s]
                  n       == Len(session.challenges)
              IN  /\ \A i \in SlotIndexes(verification_sessions, s) :
                         SlotIn(verification_sessions, s, i).attempts
                             <= SlotIn(verification_sessions, s, i).max_attempts
                  /\ TotalAttempts(session.challenges) <= n * MAX_RETRIES_PER_CHALLENGE
                  /\ session.current_index < n =>
                         LET current == SlotIn(verification_sessions, s,
                                               session.current_index)
                         IN  /\ ~current.used
                             /\ current.attempts < current.max_attempts
    /\ resp.code \notin {"challenge_already_used", "retry_limit_exceeded"}

\* An active session whose first slot was forfeited after two failed
\* attempts and whose second slot has had one failed attempt.
C24_Witness ==
    \E s \in SessionIds :
        /\ ExistsIn(verification_sessions, s)
        /\ verification_sessions[s].status = "active"
        /\ IndexIn(verification_sessions, s) = 1
        /\ SlotIn(verification_sessions, s, 0).attempts = 2
        /\ ~SlotIn(verification_sessions, s, 0).passed
        /\ SlotIn(verification_sessions, s, 1).attempts = 1

\* C25: a finalize of a session that was finalized before returns the
\* trust_score, trust_level, passed and failed counts of the first one: no
\* verify changes a slot of a finalized session.
C25_FinalizeRepeats ==
    [][\A s \in SessionIds :
          ( /\ ExistsIn(verification_sessions, s)
            /\ verification_sessions[s].status = "completed"
            /\ trust_result # NoResult
            /\ trust_result.sid = s
            /\ finalize(s) )
          => trust_result' = trust_result]_vars

====
